---- MODULE Spec2Model ----
(***************************************************************************)
(* Model of the ML pipeline driver (main.py, go) and of the basic cleaning *)
(* stage (src/basic_cleaning/run.py, __main__ and go).                     *)
(*                                                                         *)
(* Strings are modelled as sequences of lexemes: every stage name, the     *)
(* word "all", the comma, a blank and one other character "x" are atomic   *)
(* symbols.  "download,data_split" is <<"download", ",", "data_split">>,   *)
(* " download" is <<" ", "download">>, "downloadx" is <<"download", "x">>. *)
(***************************************************************************)
EXTENDS Integers, Sequences, FiniteSets, TLC

VARIABLES
    \* ---- main.py, go(config) ----
    pc,            \* position of go() in main.py
    steps_par,     \* config['main']['steps'], a string (sequence of lexemes)
    missing,       \* configuration keys that are absent from the config
    active_steps,  \* the list computed at main.py:38
    tmp_dir,       \* the TemporaryDirectory of main.py:41
    rf_config,     \* rf_config.json inside tmp_dir (main.py:100-102)
    invoked,       \* stages handed to mlflow.run so far, in call order
    completed,     \* stages whose mlflow.run has returned normally
    running,       \* the stage whose mlflow.run is executing, or None
    err,           \* kind of the exception that is propagating out of go()
    errKey,        \* the configuration key whose lookup raised
    failed,        \* the stage whose mlflow.run raised
    \* ---- src/basic_cleaning/run.py ----
    cpc,           \* position of the cleaning script
    argv,          \* the flags given on the command line
    args,          \* the argparse namespace
    store,         \* the input artifact in the store: <<table>>, or <<>>
    df,            \* the data frame held by go(args)
    csv,           \* clean_sample.csv on disk: <<table>>, or <<>>
    published,     \* artifacts logged to the run, in order
    cerr           \* the step at which the cleaning script raised

drv_vars == <<pc, steps_par, missing, active_steps, tmp_dir, rf_config,
              invoked, completed, running, err, errKey, failed>>
cln_vars == <<cpc, argv, args, store, df, csv, published, cerr>>
vars == <<drv_vars, cln_vars>>

None == "None"

-----------------------------------------------------------------------------
(* Bounds *)

\* longest main.steps string (in lexemes) when the configuration is complete
MaxLen == 3
\* longest main.steps string when configuration keys may be missing
MaxCfgLen == 1
\* most configuration keys missing at once
MaxMissing == 1
\* most rows of the input table when every flag is given
MaxRows == 3
\* most rows of the input table when flags may be omitted or malformed
MaxCliRows == 1

-----------------------------------------------------------------------------
(* main.py *)

\* main.py:11-21: the list used for "all" (test_regression_model commented out)
_steps == <<"download", "basic_cleaning", "data_check", "data_split",
            "train_random_forest">>

\* main.py:43-126: the `if "<name>" in active_steps` blocks, in program order
Blocks == <<"download", "basic_cleaning", "data_check", "data_split",
            "train_random_forest", "test_regression_model">>

StageNames == {Blocks[i] : i \in 1..Len(Blocks)}

Alphabet == StageNames \cup {"all", ",", " ", "x"}

Strings(n) == UNION {[1..k -> Alphabet] : k \in 0..n}

AllStr == <<"all">>

\* the string consisting of the stage name s
Name(s) == <<s>>

\* str.split(","): the pieces between commas, empty pieces included
RECURSIVE Split(_)
Split(s) ==
    IF \A i \in 1..Len(s) : s[i] # ","
    THEN <<s>>
    ELSE LET c == CHOOSE i \in 1..Len(s) :
                     s[i] = "," /\ \A j \in 1..(i-1) : s[j] # ","
         IN  <<SubSeq(s, 1, c-1)>> \o Split(SubSeq(s, c+1, Len(s)))

\* main.py:38
ActiveSteps_all6(sp) ==
    IF sp # AllStr THEN Split(sp) ELSE [i \in 1..Len(Blocks) |-> Name(Blocks[i])]

\* elements with the blanks removed, as in [s.strip() for s in ...]
ActiveSteps_strip(sp) ==
    IF sp # AllStr
    THEN [i \in 1..Len(Split(sp)) |->
             SelectSeq(Split(sp)[i], LAMBDA c : c # " ")]
    ELSE [i \in 1..Len(_steps) |-> Name(_steps[i])]

ActiveSteps(sp) ==
    IF sp # AllStr THEN Split(sp) ELSE [i \in 1..Len(_steps) |-> Name(_steps[i])]

\* `"<name>" in active_steps`: list membership, by equality of whole elements
InActive_substr(s, act) ==
    \E i \in 1..Len(act) : \E j \in 1..Len(act[i]) : act[i][j] = s

InActive(s, act) == \E i \in 1..Len(act) : act[i] = Name(s)

MainKeys == {"main.project_name", "main.experiment_name", "main.steps"}

\* the config keys read while the parameters of a stage are built, in order
StageKeys_eager(s) ==
    IF s = "download"
    THEN <<"etl.sample", "modeling.test_size", "modeling.random_seed",
           "modeling.stratify_by">>
    ELSE IF s = "basic_cleaning" THEN <<"etl.min_price", "etl.max_price">>
    ELSE IF s = "data_check"
    THEN <<"data_check.kl_threshold", "data_check.min_price",
           "data_check.max_price">>
    ELSE IF s = "data_split" THEN <<>>
    ELSE IF s = "train_random_forest"
    THEN <<"modeling.random_forest", "modeling.val_size",
           "modeling.random_seed", "modeling.stratify_by",
           "modeling.max_tfidf_features", "modeling.output_artifact">>
    ELSE <<>>

StageKeys(s) ==
    IF s = "download" THEN <<"etl.sample">>
    ELSE IF s = "basic_cleaning" THEN <<"etl.min_price", "etl.max_price">>
    ELSE IF s = "data_check"
    THEN <<"data_check.kl_threshold", "data_check.min_price",
           "data_check.max_price">>
    ELSE IF s = "data_split"
    THEN <<"modeling.test_size", "modeling.random_seed",
           "modeling.stratify_by">>
    ELSE IF s = "train_random_forest"
    THEN <<"modeling.random_forest", "modeling.val_size",
           "modeling.random_seed", "modeling.stratify_by",
           "modeling.max_tfidf_features", "modeling.output_artifact">>
    ELSE <<>>

Range(f) == {f[i] : i \in DOMAIN f}

Keys == MainKeys \cup UNION {Range(StageKeys(s)) : s \in StageNames}

\* the first key of a lookup sequence that is absent, or None
FirstMissing(ks, miss) ==
    IF \A i \in 1..Len(ks) : ks[i] \notin miss
    THEN None
    ELSE ks[CHOOSE i \in 1..Len(ks) :
                ks[i] \in miss /\ \A j \in 1..(i-1) : ks[j] \notin miss]

BlockIndex(s) == CHOOSE i \in 1..Len(Blocks) : Blocks[i] = s

\* where control goes after the block of stage s
NextBlock(s) ==
    IF BlockIndex(s) = Len(Blocks) THEN "exit" ELSE Blocks[BlockIndex(s) + 1]

\* where control goes when mlflow.run returns (ok) or raises (~ok)
AfterRun_continue(s, ok) == NextBlock(s)

AfterRun(s, ok) == IF ok THEN NextBlock(s) ELSE "unwind"

\* TemporaryDirectory.__exit__: the directory after the with block is left,
\* normally (p = "exit") or by an exception (p = "unwind")
TmpAfterExit_leak(p) == IF p = "exit" THEN "removed" ELSE "exists"

TmpAfterExit(p) == "removed"

\* main.py:29-34
Setup ==
    /\ pc = "start"
    /\ LET k == FirstMissing(<<"main.project_name", "main.experiment_name">>,
                             missing)
       IN  IF k = None
           THEN /\ pc' = "steps"
                /\ UNCHANGED <<err, errKey>>
           ELSE /\ pc' = "aborted"
                /\ err' = "config"
                /\ errKey' = k
    /\ UNCHANGED <<steps_par, missing, active_steps, tmp_dir, rf_config,
                   invoked, completed, running, failed>>
    /\ UNCHANGED cln_vars

\* main.py:37-38
ResolveSteps ==
    /\ pc = "steps"
    /\ IF "main.steps" \in missing
       THEN /\ pc' = "aborted"
            /\ err' = "config"
            /\ errKey' = "main.steps"
            /\ UNCHANGED active_steps
       ELSE /\ active_steps' = ActiveSteps(steps_par)
            /\ pc' = "tmpdir"
            /\ UNCHANGED <<err, errKey>>
    /\ UNCHANGED <<steps_par, missing, tmp_dir, rf_config, invoked, completed,
                   running, failed>>
    /\ UNCHANGED cln_vars

\* main.py:41, entering the with block
EnterTmp ==
    /\ pc = "tmpdir"
    /\ tmp_dir' = "exists"
    /\ pc' = Blocks[1]
    /\ UNCHANGED <<steps_par, missing, active_steps, rf_config, invoked,
                   completed, running, err, errKey, failed>>
    /\ UNCHANGED cln_vars

\* an `if "<s>" in active_steps` test that is false
SkipStage(s) ==
    /\ pc = s
    /\ ~InActive(s, active_steps)
    /\ pc' = NextBlock(s)
    /\ UNCHANGED <<steps_par, missing, active_steps, tmp_dir, rf_config,
                   invoked, completed, running, err, errKey, failed>>
    /\ UNCHANGED cln_vars

\* main.py:100-102: rf_config.json is opened for writing (created empty)
\* before config["modeling"]["random_forest"] is looked up and dumped
RfConfigAfterBuild(s, k) ==
    IF s # "train_random_forest" THEN rf_config
    ELSE IF k = "modeling.random_forest" THEN "empty"
    ELSE "written"

\* an `if "<s>" in active_steps` test that is true: the parameters are built
\* from the config and mlflow.run is called
BeginStage(s) ==
    /\ pc = s
    /\ InActive(s, active_steps)
    /\ LET k == FirstMissing(StageKeys(s), missing)
       IN  /\ rf_config' = RfConfigAfterBuild(s, k)
           /\ IF k = None
              THEN /\ running' = s
                   /\ invoked' = Append(invoked, s)
                   /\ pc' = "in_run"
                   /\ UNCHANGED <<err, errKey>>
              ELSE /\ pc' = "unwind"
                   /\ err' = "config"
                   /\ errKey' = k
                   /\ UNCHANGED <<running, invoked>>
    /\ UNCHANGED <<steps_par, missing, active_steps, tmp_dir, completed,
                   failed>>
    /\ UNCHANGED cln_vars

\* mlflow.run returns, or raises because the stage failed
EndStage(ok) ==
    /\ pc = "in_run"
    /\ running # None
    /\ pc' = AfterRun(running, ok)
    /\ running' = None
    /\ IF ok
       THEN /\ completed' = Append(completed, running)
            /\ UNCHANGED <<err, failed>>
       ELSE /\ err' = "stage"
            /\ failed' = running
            /\ UNCHANGED completed
    /\ UNCHANGED <<steps_par, missing, active_steps, tmp_dir, rf_config,
                   invoked, errKey>>
    /\ UNCHANGED cln_vars

\* leaving the with block of main.py:41, normally or by an exception
ExitTmp ==
    /\ pc \in {"exit", "unwind"}
    /\ tmp_dir' = TmpAfterExit(pc)
    /\ rf_config' = IF tmp_dir' = "removed" THEN "absent" ELSE rf_config
    /\ pc' = IF pc = "exit" THEN "done" ELSE "aborted"
    /\ UNCHANGED <<steps_par, missing, active_steps, invoked, completed,
                   running, err, errKey, failed>>
    /\ UNCHANGED cln_vars

ClnIdle ==
    /\ cpc = "idle"
    /\ argv = <<>>
    /\ args = <<>>
    /\ store = <<>>
    /\ df = <<>>
    /\ csv = <<>>
    /\ published = <<>>
    /\ cerr = None

InitDriver ==
    /\ pc = "start"
    /\ \/ /\ missing = {}
          /\ steps_par \in Strings(MaxLen)
       \/ /\ missing \in {m \in SUBSET Keys : Cardinality(m) <= MaxMissing}
          /\ steps_par \in Strings(MaxCfgLen)
    /\ active_steps = <<>>
    /\ tmp_dir = "none"
    /\ rf_config = "absent"
    /\ invoked = <<>>
    /\ completed = <<>>
    /\ running = None
    /\ err = None
    /\ errKey = None
    /\ failed = None
    /\ ClnIdle

NextDriver ==
    \/ Setup
    \/ ResolveSteps
    \/ EnterTmp
    \/ \E s \in StageNames : SkipStage(s)
    \/ \E s \in StageNames : BeginStage(s)
    \/ \E ok \in BOOLEAN : EndStage(ok)
    \/ ExitTmp

SpecDriver == InitDriver /\ [][NextDriver]_vars

-----------------------------------------------------------------------------
(* src/basic_cleaning/run.py *)

\* Longitudes and latitudes are in hundredths of a degree.
\* run.py:32: between(-74.25, -73.50) and between(40.5, 41.2)
LonMin == -7425
LonMax == -7350
LatMin == 4050
LatMax == 4120

\* cells of the last_review column of the input csv
DateStr == "2019-05-21"
BadStr == "soon"
NaN == "NaN"
\* values of the last_review column after pd.to_datetime
Timestamp == "Timestamp(2019-05-21)"
NaT == "NaT"
ParseError == "ParseError"

Row(p, lo, la, lr) ==
    [price |-> p, longitude |-> lo, latitude |-> la, last_review |-> lr]

\* the rows input tables are built from
Rows ==
    { Row(10, -7400, 4070, DateStr),
      Row(100, -7400, 4070, DateStr),
      Row(600, -7400, 4070, DateStr),
      Row(50, LonMin, LatMin, NaN),
      Row(500, LonMax, LatMax, DateStr),
      Row(100, LonMin - 1, LatMin, DateStr),
      Row(100, LonMax + 1, LatMax, DateStr),
      Row(100, LonMin, LatMin - 1, DateStr),
      Row(100, LonMax, LatMax + 1, DateStr),
      Row(100, -7400, 4070, BadStr),
      Row(10, -7400, 4070, BadStr) }

Tables(n) == UNION {[1..k -> Rows] : k \in 0..n}

\* run.py:51-85: the six flags; no add_argument call passes required=True
Flags == {"input_artifact", "output_artifact", "output_type",
          "output_description", "min_price", "max_price"}
FloatFlags == {"min_price", "max_price"}
Required == {}

Absent == "Absent"
NotANumber == "abc"

\* the value the driver passes for a string flag (main.py:65-68)
StringValue(f) ==
    IF f = "input_artifact" THEN "sample.csv:latest"
    ELSE IF f = "output_artifact" THEN "clean_sample.csv"
    ELSE IF f = "output_type" THEN "clean_sample"
    ELSE "Data with outliers and null values removed"

\* the texts of (min_price, max_price) given when every flag is present
Thresholds == {<<"50", "500">>, <<"100", "100">>}

\* an optional value: Nothing is Python's None, Some(v) is the value v
Nothing == <<>>
Some(v) == <<v>>
Value(o) == o[1]

\* type=float on the text of a numeric flag
ParseFloat(s) ==
    IF s = "50" THEN Some(50)
    ELSE IF s = "100" THEN Some(100)
    ELSE IF s = "500" THEN Some(500)
    ELSE Nothing

\* command lines with every flag present and well-formed
FullArgv ==
    {[f \in Flags |->
         IF f = "min_price" THEN th[1]
         ELSE IF f = "max_price" THEN th[2]
         ELSE StringValue(f)] : th \in Thresholds}

\* command lines in which each flag is absent or present, and a numeric flag
\* may carry text that is not a number
AnyArgv ==
    {a \in [Flags -> {Absent, NotANumber, "50", "500"} \cup
                     {StringValue(f) : f \in Flags \ FloatFlags}] :
        /\ a["min_price"] \in {Absent, NotANumber, "50"}
        /\ a["max_price"] \in {Absent, NotANumber, "500"}
        /\ \A f \in Flags \ FloatFlags : a[f] \in {Absent, StringValue(f)}}

\* argparse: parse_args() exits with status 2 when a required flag is absent
\* or when type=float rejects the text of a numeric flag
Rejected(a) ==
    \/ \E f \in Required : a[f] = Absent
    \/ \E f \in FloatFlags : a[f] # Absent /\ ParseFloat(a[f]) = Nothing

\* argparse: the namespace; a flag that was not given is None
Namespace(a) ==
    [f \in Flags |->
        IF a[f] = Absent THEN Nothing
        ELSE IF f \in FloatFlags THEN ParseFloat(a[f])
        ELSE Some(a[f])]

\* Series.between(left, right), inclusive on both ends (run.py:26, 32)
Between_exclusive(x, left, right) == left < x /\ x < right

Between(x, left, right) == left <= x /\ x <= right

\* pd.to_datetime with the default errors="raise" on one cell (run.py:30)
ToDatetime_coerce(v) ==
    IF v = DateStr THEN Timestamp ELSE NaT

ToDatetime(v) ==
    IF v = DateStr THEN Timestamp
    ELSE IF v = NaN THEN NaT
    ELSE ParseError

\* DataFrame.to_csv on one last_review cell (run.py:36)
FormatCell(v) ==
    IF v = Timestamp THEN DateStr
    ELSE IF v = NaT THEN NaN
    ELSE v

\* the table with pd.to_datetime applied to the last_review column
ParseReviews(t) ==
    [i \in 1..Len(t) |->
        [t[i] EXCEPT !.last_review = ToDatetime(t[i].last_review)]]

\* the table as DataFrame.to_csv writes it
FormatReviews(t) ==
    [i \in 1..Len(t) |->
        [t[i] EXCEPT !.last_review = FormatCell(t[i].last_review)]]

\* what run.log_artifact leaves in the run when it returns (ok) or raises
Logged_always(ok, art) == Append(published, art)

Logged(ok, art) == IF ok THEN Append(published, art) ELSE published

\* an exception leaves go(args): the process exits with a non-zero status
Raise(step) ==
    /\ cpc' = "failed"
    /\ cerr' = step

\* run.py:49-87
ParseArgs ==
    /\ cpc = "main"
    /\ IF Rejected(argv)
       THEN /\ cpc' = "usage"
            /\ UNCHANGED args
       ELSE /\ args' = Namespace(argv)
            /\ cpc' = "init"
    /\ UNCHANGED <<argv, store, df, csv, published, cerr>>
    /\ UNCHANGED drv_vars

\* run.py:16-17
WandbInit(ok) ==
    /\ cpc = "init"
    /\ IF ok THEN cpc' = "fetch" /\ UNCHANGED cerr ELSE Raise("init")
    /\ UNCHANGED <<argv, args, store, df, csv, published>>
    /\ UNCHANGED drv_vars

\* run.py:20: the artifact is resolved and downloaded; this raises when the
\* store has no such artifact, when no name was given, or on an I/O error
UseArtifact(ok) ==
    /\ cpc = "fetch"
    /\ ok => store # Nothing /\ args["input_artifact"] # Nothing
    /\ IF ok THEN cpc' = "load" /\ UNCHANGED cerr ELSE Raise("fetch")
    /\ UNCHANGED <<argv, args, store, df, csv, published>>
    /\ UNCHANGED drv_vars

\* run.py:21
ReadCsv(ok) ==
    /\ cpc = "load"
    /\ IF ok
       THEN /\ df' = Value(store)
            /\ cpc' = "price"
            /\ UNCHANGED cerr
       ELSE /\ Raise("load")
            /\ UNCHANGED df
    /\ UNCHANGED <<argv, args, store, csv, published>>
    /\ UNCHANGED drv_vars

\* run.py:24-27.  With a bound that is None the comparison either yields
\* False for every row or raises TypeError, depending on the pandas version.
PriceFilter(typeError) ==
    /\ cpc = "price"
    /\ IF args["min_price"] = Nothing \/ args["max_price"] = Nothing
       THEN IF typeError
            THEN Raise("price") /\ UNCHANGED df
            ELSE df' = <<>> /\ cpc' = "dates" /\ UNCHANGED cerr
       ELSE /\ ~typeError
            /\ df' = SelectSeq(df, LAMBDA r :
                        Between(r.price, Value(args["min_price"]),
                                Value(args["max_price"])))
            /\ cpc' = "dates"
            /\ UNCHANGED cerr
    /\ UNCHANGED <<argv, args, store, csv, published>>
    /\ UNCHANGED drv_vars

\* run.py:30
ConvertDates ==
    /\ cpc = "dates"
    /\ IF \E i \in 1..Len(df) : ToDatetime(df[i].last_review) = ParseError
       THEN Raise("dates") /\ UNCHANGED df
       ELSE /\ df' = ParseReviews(df)
            /\ cpc' = "bbox"
            /\ UNCHANGED cerr
    /\ UNCHANGED <<argv, args, store, csv, published>>
    /\ UNCHANGED drv_vars

\* run.py:32-33
BoxFilter ==
    /\ cpc = "bbox"
    /\ df' = SelectSeq(df, LAMBDA r :
                /\ Between(r.longitude, LonMin, LonMax)
                /\ Between(r.latitude, LatMin, LatMax))
    /\ cpc' = "write"
    /\ UNCHANGED <<argv, args, store, csv, published, cerr>>
    /\ UNCHANGED drv_vars

\* run.py:36
ToCsv(ok) ==
    /\ cpc = "write"
    /\ IF ok
       THEN /\ csv' = Some(FormatReviews(df))
            /\ cpc' = "publish"
            /\ UNCHANGED cerr
       ELSE /\ Raise("write")
            /\ UNCHANGED csv
    /\ UNCHANGED <<argv, args, store, df, published>>
    /\ UNCHANGED drv_vars

\* run.py:39-45
LogArtifact(ok) ==
    /\ cpc = "publish"
    /\ published' = Logged(ok, [name |-> args["output_artifact"],
                                type |-> args["output_type"],
                                description |-> args["output_description"],
                                rows |-> csv])
    /\ IF ok THEN cpc' = "done" /\ UNCHANGED cerr ELSE Raise("publish")
    /\ UNCHANGED <<argv, args, store, df, csv>>
    /\ UNCHANGED drv_vars

DrvIdle ==
    /\ pc = "idle"
    /\ steps_par = <<>>
    /\ missing = {}
    /\ active_steps = <<>>
    /\ tmp_dir = "none"
    /\ rf_config = "absent"
    /\ invoked = <<>>
    /\ completed = <<>>
    /\ running = None
    /\ err = None
    /\ errKey = None
    /\ failed = None

InitClean ==
    /\ cpc = "main"
    /\ \/ /\ argv \in FullArgv
          /\ store \in {Some(tb) : tb \in Tables(MaxRows)} \cup {Nothing}
       \/ /\ argv \in AnyArgv
          /\ store \in {Some(tb) : tb \in Tables(MaxCliRows)} \cup {Nothing}
    /\ args = <<>>
    /\ df = <<>>
    /\ csv = Nothing
    /\ published = <<>>
    /\ cerr = None
    /\ DrvIdle

NextClean ==
    \/ ParseArgs
    \/ \E ok \in BOOLEAN : WandbInit(ok)
    \/ \E ok \in BOOLEAN : UseArtifact(ok)
    \/ \E ok \in BOOLEAN : ReadCsv(ok)
    \/ \E typeError \in BOOLEAN : PriceFilter(typeError)
    \/ ConvertDates
    \/ BoxFilter
    \/ \E ok \in BOOLEAN : ToCsv(ok)
    \/ \E ok \in BOOLEAN : LogArtifact(ok)

SpecClean == InitClean /\ [][NextClean]_vars

-----------------------------------------------------------------------------
(* Properties of main.py *)

\* the name s is one of the comma-separated elements of the string sp:
\* it stands alone between two commas (or the ends of the string)
Listed(s, sp) ==
    \E i \in 1..Len(sp) :
        /\ sp[i] = s
        /\ (i = 1 \/ sp[i-1] = ",")
        /\ (i = Len(sp) \/ sp[i+1] = ",")

\* the canonical order of the stages
Canonical == <<"download", "basic_cleaning", "data_check", "data_split",
               "train_random_forest", "test_regression_model">>

\* the stages of a set, in canonical order
InOrder(S) == SelectSeq(Canonical, LAMBDA b : b \in S)

Before(a, b) ==
    \E i, j \in 1..Len(Canonical) :
        i < j /\ Canonical[i] = a /\ Canonical[j] = b

\* the stages whose parameters are built from a configuration key
UsedBy(k) ==
    IF k = "etl.sample" THEN {"download"}
    ELSE IF k \in {"etl.min_price", "etl.max_price"} THEN {"basic_cleaning"}
    ELSE IF k \in {"data_check.kl_threshold", "data_check.min_price",
                   "data_check.max_price"} THEN {"data_check"}
    ELSE IF k = "modeling.test_size" THEN {"data_split"}
    ELSE IF k \in {"modeling.random_seed", "modeling.stratify_by"}
    THEN {"data_split", "train_random_forest"}
    ELSE IF k \in {"modeling.random_forest", "modeling.val_size",
                   "modeling.max_tfidf_features", "modeling.output_artifact"}
    THEN {"train_random_forest"}
    ELSE {}

\* the active stages that use a key the configuration lacks
Starved == {s \in StageNames :
              /\ InActive(s, active_steps)
              /\ \E k \in missing : s \in UsedBy(k)}

IsPrefix(a, b) == Len(a) <= Len(b) /\ SubSeq(b, 1, Len(a)) = a

Explicit == steps_par # AllStr

Finished == pc \in {"done", "aborted"}

\* C1: with an explicit comma-separated main.steps, in whatever order the
\* names are listed, the stages handed to the runner are at every moment a
\* prefix of the listed canonical stages taken in canonical order; a call is
\* made only while no other call is executing; and when go() returns
\* normally the calls made are exactly the listed stages, in canonical order.
C1_ExplicitListRunsInCanonicalOrder ==
    Explicit =>
        /\ IsPrefix(invoked, InOrder({s \in StageNames : Listed(s, steps_par)}))
        /\ running # None =>
               /\ invoked # <<>>
               /\ invoked[Len(invoked)] = running
               /\ completed = SubSeq(invoked, 1, Len(invoked) - 1)
        /\ running = None /\ failed = None => completed = invoked
        /\ pc = "done" =>
               invoked = InOrder({s \in StageNames : Listed(s, steps_par)})

C1_Witness ==
    /\ pc = "done"
    /\ steps_par = <<"data_split", ",", "download">>
    /\ invoked = <<"download", "data_split">>

\* C2: with main.steps = "all" the test_regression_model stage is never
\* invoked, and a run without failure invokes download, basic_cleaning,
\* data_check, data_split and train_random_forest; test_regression_model is
\* invoked only when an explicit list names it.
C2_AllExcludesTestRegression ==
    /\ ~Explicit => \A i \in 1..Len(invoked) :
                        invoked[i] # "test_regression_model"
    /\ ~Explicit /\ pc = "done" =>
           invoked = <<"download", "basic_cleaning", "data_check",
                       "data_split", "train_random_forest">>
    /\ (\E i \in 1..Len(invoked) : invoked[i] = "test_regression_model") =>
           Explicit /\ Listed("test_regression_model", steps_par)

C2_Witness ==
    /\ ~Explicit
    /\ pc = "done"
    /\ Len(invoked) = 5
    /\ missing = {}

C2_WitnessExplicit ==
    /\ pc = "done"
    /\ invoked = <<"train_random_forest", "test_regression_model">>

\* C3: once the runner call of a stage has failed, no further stage is
\* invoked and the failed stage is not invoked again, the stages that had
\* completed stay completed, and the run ends aborted, never successfully.
C3_FailureAbortsRun ==
    /\ [](failed # None =>
            /\ pc \in {"unwind", "aborted"}
            /\ err = "stage"
            /\ running = None
            /\ invoked = Append(completed, failed)
            /\ \A i \in 1..Len(completed) : completed[i] # failed)
    /\ [][failed # None =>
            /\ invoked' = invoked
            /\ completed' = completed
            /\ failed' = failed
            /\ pc' = "aborted"]_vars

C3_Witness ==
    /\ pc = "aborted"
    /\ failed = "data_check"
    /\ completed = <<"download", "basic_cleaning">>
    /\ invoked = <<"download", "basic_cleaning", "data_check">>

\* C4 (as stated): a configuration error, also of a key used only by a later
\* stage, aborts the run before any stage has been invoked.
C4_ConfigErrorBeforeAnyStage ==
    err = "config" => invoked = <<>>

\* C4 (amended): a missing main.* key aborts the run before the temporary
\* directory is created and before any stage is invoked; a missing key of a
\* stage aborts the run when the parameters of that stage are built: that
\* stage and the later ones are not invoked, and every active stage that
\* precedes it has been invoked and has completed.  A key that only inactive
\* stages use is never looked up.
C4_ConfigErrorAtFirstUse ==
    /\ err = "config" =>
         /\ errKey \in missing
         /\ failed = None
         /\ errKey \in MainKeys => invoked = <<>> /\ tmp_dir = "none"
         /\ errKey \notin MainKeys =>
              \E s \in Starved :
                 /\ s \in UsedBy(errKey)
                 /\ \A b \in Starved : b = s \/ Before(s, b)
                 /\ invoked = InOrder({b \in StageNames :
                                         /\ InActive(b, active_steps)
                                         /\ Before(b, s)})
                 /\ completed = invoked
    /\ pc = "done" => Starved = {}
    /\ pc \in StageNames \cup {"in_run", "exit", "unwind"} =>
         missing \cap MainKeys = {}

C4_Witness ==
    /\ pc = "aborted"
    /\ err = "config"
    /\ errKey = "modeling.test_size"
    /\ invoked = <<"download", "basic_cleaning", "data_check">>

C4_WitnessUnused ==
    /\ pc = "done"
    /\ missing = {"modeling.test_size"}
    /\ invoked = <<"download">>

\* C5: the temporary directory exists from the moment the with block is
\* entered until it is left, in particular while a stage runs; rf_config.json
\* exists only inside it and is complete while train_random_forest runs; and
\* when go() has exited, on any path, neither exists any more.
C5_TmpDirScoped ==
    /\ running # None => tmp_dir = "exists"
    /\ pc \in StageNames \cup {"in_run", "exit", "unwind"} => tmp_dir = "exists"
    /\ rf_config # "absent" => tmp_dir = "exists"
    /\ running = "train_random_forest" => rf_config = "written"
    /\ Finished => tmp_dir # "exists" /\ rf_config = "absent"
    /\ pc = "done" => tmp_dir = "removed"

C5_Witness ==
    /\ pc = "aborted"
    /\ tmp_dir = "removed"
    /\ failed = "train_random_forest"

C5_WitnessEmpty ==
    /\ pc = "done"
    /\ invoked = <<>>
    /\ tmp_dir = "removed"

C5_WitnessConfig ==
    /\ pc = "unwind"
    /\ errKey = "modeling.random_forest"
    /\ rf_config = "empty"

\* the string has an element that is not exactly a stage name
HasOtherElement(sp) ==
    \E i \in 1..Len(Split(sp)) :
        \A s \in StageNames : Split(sp)[i] # Name(s)

\* C6: in an explicit list, an element that is not exactly a stage name (an
\* unknown name, a name with a blank or another character attached, an empty
\* element) invokes nothing and raises nothing: only stages that are listed
\* exactly are ever invoked, no error arises that is not a stage failure or
\* a missing key, a completed run has invoked exactly the listed stages, and
\* a list without any stage name invokes nothing and is never aborted inside
\* the with block.
C6_UnknownNamesIgnored ==
    Explicit /\ HasOtherElement(steps_par) =>
        /\ \A i \in 1..Len(invoked) : Listed(invoked[i], steps_par)
        /\ err = "stage" => failed # None /\ Listed(failed, steps_par)
        /\ err = "config" => errKey \in missing
        /\ pc = "done" =>
              {invoked[i] : i \in 1..Len(invoked)}
                  = {s \in StageNames : Listed(s, steps_par)}
        /\ (\A s \in StageNames : ~Listed(s, steps_par)) =>
              /\ invoked = <<>>
              /\ pc \notin {"in_run", "unwind"}
              /\ pc = "aborted" => errKey \in MainKeys

C6_Witness ==
    /\ pc = "done"
    /\ steps_par = <<" ", "download", ",">>
    /\ invoked = <<>>
    /\ err = None

C6_WitnessMixed ==
    /\ pc = "done"
    /\ steps_par = <<"x", ",", "download">>
    /\ invoked = <<"download">>

-----------------------------------------------------------------------------
(* Properties of src/basic_cleaning/run.py *)

\* every flag was given on the command line
AllGiven == \A f \in Flags : argv[f] # Absent

\* the row satisfies the three ranges for the thresholds lo and hi
Kept(r, lo, hi) ==
    /\ lo <= r.price /\ r.price <= hi
    /\ -7425 <= r.longitude /\ r.longitude <= -7350
    /\ 4050 <= r.latitude /\ r.latitude <= 4120

\* C7: whenever go(args) completes with both thresholds given, the rows it
\* has written and published are exactly the input rows, in input order and
\* unchanged, that satisfy min_price <= price <= max_price (inclusive),
\* -74.25 <= longitude <= -73.50 and 40.5 <= latitude <= 41.2; with
\* min_price = 50, max_price = 500 and input prices 10, 100, 600 only the
\* row of price 100 is kept.
C7_OutputIsFilteredInput ==
    cpc = "done" /\ args["min_price"] # Nothing /\ args["max_price"] # Nothing =>
        /\ Value(csv) = SelectSeq(Value(store), LAMBDA r :
                            Kept(r, Value(args["min_price"]),
                                 Value(args["max_price"])))
        /\ published[Len(published)].rows = csv
        /\ \A i \in 1..Len(Value(csv)) :
              Kept(Value(csv)[i], Value(args["min_price"]),
                   Value(args["max_price"]))
        /\ ( /\ args["min_price"] = Some(50)
             /\ args["max_price"] = Some(500)
             /\ Len(Value(store)) = 3
             /\ Value(store)[1].price = 10
             /\ Value(store)[2].price = 100
             /\ Value(store)[3].price = 600 )
           => Value(csv) \in {<<>>, <<Value(store)[2]>>}

C7_Witness ==
    /\ cpc = "done"
    /\ args["min_price"] = Some(50)
    /\ args["max_price"] = Some(500)
    /\ Value(store) = << Row(10, -7400, 4070, DateStr),
                         Row(100, -7400, 4070, DateStr),
                         Row(600, -7400, 4070, DateStr) >>
    /\ Value(csv) = << Row(100, -7400, 4070, DateStr) >>

C7_WitnessBoundary ==
    /\ cpc = "done"
    /\ Value(store) = << Row(50, LonMin, LatMin, NaN),
                         Row(500, LonMax, LatMax, DateStr),
                         Row(100, LonMax + 1, LatMax, DateStr) >>
    /\ Len(Value(csv)) = 2

\* the input rows that survive the price filter
PriceSurvivors ==
    IF args["min_price"] = Nothing \/ args["max_price"] = Nothing
    THEN <<>>
    ELSE SelectSeq(Value(store), LAMBDA r :
             /\ Value(args["min_price"]) <= r.price
             /\ r.price <= Value(args["max_price"]))

Unparsable(r) == r.last_review \notin {DateStr, NaN}

\* C8 (as stated): when a row that survives the price filter has a
\* last_review that cannot be parsed, go(args) does not raise: the later
\* steps run.
C8_UnparsableBecomesNull ==
    cpc = "failed" => cerr # "dates"

\* C8 (amended): when a row that survives the price filter has a
\* last_review that cannot be parsed as a date, go(args) raises at the date
\* conversion: the bounding-box filter, the write and the publication do not
\* run and no artifact is published.  Only a missing last_review becomes
\* null without an error, and go(args) gets past the conversion only when
\* every surviving last_review is a date or is missing.
C8_UnparsableRaises ==
    /\ cerr = "dates" =>
          /\ cpc = "failed"
          /\ \E i \in 1..Len(PriceSurvivors) : Unparsable(PriceSurvivors[i])
          /\ csv = Nothing
          /\ published = <<>>
    /\ cpc \in {"bbox", "write", "publish", "done"} =>
          /\ \A i \in 1..Len(PriceSurvivors) : ~Unparsable(PriceSurvivors[i])
    /\ cpc = "bbox" =>
          /\ Len(df) = Len(PriceSurvivors)
          /\ \A i \in 1..Len(df) :
                df[i].last_review =
                    IF PriceSurvivors[i].last_review = NaN
                    THEN NaT ELSE Timestamp

C8_Witness ==
    /\ cpc = "failed"
    /\ cerr = "dates"
    /\ Value(store) = << Row(10, -7400, 4070, BadStr),
                         Row(100, -7400, 4070, BadStr) >>

C8_WitnessNull ==
    /\ cpc = "done"
    /\ Value(store) = << Row(50, LonMin, LatMin, NaN),
                         Row(10, -7400, 4070, BadStr) >>
    /\ Value(csv) = << Row(50, LonMin, LatMin, NaN) >>

\* C9: the cleaning stage publishes exactly one artifact when it completes
\* and none when it fails or is rejected; the publication is the last step,
\* taken only after the input was resolved and loaded, the filters and the
\* conversion were applied and the whole filtered table was written, and
\* what is published is the table that was written.
C9_PublishOnceAtEnd ==
    /\ [](/\ Len(published) <= 1
          /\ cpc = "done" <=> Len(published) = 1
          /\ cpc \in {"failed", "usage"} => published = <<>>
          /\ cpc = "failed" <=> cerr # None
          /\ published # <<>> =>
                /\ store # Nothing
                /\ csv # Nothing
                /\ published[1].rows = csv
                /\ Value(csv) = FormatReviews(df))
    /\ [][published' # published =>
             /\ cpc = "publish"
             /\ cpc' = "done"
             /\ csv # Nothing]_vars

C9_Witness ==
    /\ cpc = "done"
    /\ Len(published) = 1
    /\ Len(Value(published[1].rows)) = 2

C9_WitnessFailed ==
    /\ cpc = "failed"
    /\ cerr = "publish"
    /\ csv # Nothing
    /\ published = <<>>

\* C10: all six flags are required: a command line that omits a flag is
\* rejected before go(args) starts.
C10_AllFlagsRequired ==
    ~AllGiven => cpc \in {"main", "usage"}

\* C10, the consequences: go(args) never runs with a None argument, and so
\* never publishes in that case.
C10_NeverPublishesWithNone ==
    ~AllGiven => published = <<>>

====
